---- MODULE Spec2Model ----
(***************************************************************************)
(* Trading-Backtester: the martingale engine and the plain execution       *)
(* engine of strategies.py, followed by the trade reconstruction of        *)
(* backtest.py and the one of report.py, as main.py chains them; and the   *)
(* chunked download loop of fetch_data (SpecFetch).                        *)
(*                                                                         *)
(* A data frame is a family of columns, each a function over the row       *)
(* indices 0..n-1 (the rows keep the 0-based indices of the source).       *)
(* Datetime[k] is modelled by the row index k: timestamps are unique and   *)
(* strictly increasing.  Floating-point amounts are modelled by integers.  *)
(***************************************************************************)
EXTENDS Integers, Sequences, FiniteSets, TLC

\* ------------------------------------------------------------------ bounds
MaxLen == 3
MaxPrice == 4
MaxDate == 16

\* chunk_size = 7  # days per request (Yahoo limit)
chunk_size == 7

\* ------------------------------------------------------- special cell values
\* a missing / non-numeric close after pd.to_numeric(errors="coerce")
NaN == -1000
\* entry_price = None
None == -2000

isna(x) == x = NaN

Abs(x) == IF x < 0 THEN -x ELSE x

Rows(col) == DOMAIN col
len(col) == Cardinality(DOMAIN col)

\* a column of n cells, all equal to v   (df["P&L"] = 0.0)
Column(n, v) == [k \in 0..(n - 1) |-> v]

\* ------------------------------------------------------------------ inputs
PriceVals == (1..MaxPrice) \cup {NaN}
SignalVals == {-1, 0, 1}

\* valid martingale configurations explored: step below take_profit (as in
\* main.py) and above it (as in the defaults of martingale_strategy)
MartConfigs ==
    { c \in [base_lot : {1}, multiplier : {2}, step : {1, 2},
             take_profit : {1, 2}, reverse_signals : BOOLEAN,
             close_on_flip : BOOLEAN] :
        c.step # c.take_profit }

\* configurations with one non-positive option
BadMartConfigs ==
    { c \in [base_lot : {0, 1}, multiplier : {0, 2}, step : {0, 2},
             take_profit : {0, 1}, reverse_signals : {FALSE},
             close_on_flip : {FALSE}] :
        c.base_lot <= 0 \/ c.multiplier <= 0 \/ c.step <= 0 \/ c.take_profit <= 0 }

\* a position size other than 1, so that Position and side differ
ExecConfigs == [position_size : {2}, flat_on_zero : BOOLEAN]

ValidConfig(c) ==
    c.base_lot > 0 /\ c.multiplier > 0 /\ c.step > 0 /\ c.take_profit > 0

\* the acceptance scenario of the specification
ScenarioClose == [k \in 0..4 |-> CASE k = 0 -> 100 [] k = 1 -> 102
                                    [] k = 2 -> 104 [] k = 3 -> 92
                                    [] OTHER -> 108]
ScenarioSignal == [k \in 0..4 |-> 1]
ScenarioConfig == [base_lot |-> 1, multiplier |-> 2, step |-> 10,
                   take_profit |-> 8, reverse_signals |-> FALSE,
                   close_on_flip |-> FALSE]

VARIABLES
    engine,       \* "martingale" or "execute": the branch main.py takes
    Close,        \* df["Close"] of the caller
    Signal,       \* df["Signal"] of the caller
    cfg,          \* keyword arguments of the engine call
    pc,           \* position in the program
    dfSignal,     \* df["Signal"] of the engine's working copy
    Position,     \* df["Position"]
    PnL,          \* df["P&L"]
    Closed,       \* df["Closed"]
    trades,       \* martingale_strategy: the fill ledger
    side, current_lot, entry_price,   \* martingale_strategy locals
    side_prev,    \* execute_signals local
    i,            \* loop index of the running engine
    trade_summ,   \* backtest: the rows of the trade table
    report_summ,  \* performance_report: the rows of its own trade table
    start_date, end_date,   \* fetch_data: the range asked for, as day numbers
    start,        \* fetch_data: first day of the next request
    all_data      \* fetch_data: the requests made, <<start, end>> with end exclusive

vars == <<engine, Close, Signal, cfg, pc, dfSignal, Position, PnL, Closed,
          trades, side, current_lot, entry_price, side_prev, i, trade_summ,
          report_summ, start_date, end_date, start, all_data>>

inputVars == <<engine, Close, Signal, cfg>>
martVars == <<trades, side, current_lot, entry_price>>
fetchVars == <<start_date, end_date, start, all_data>>

\* ------------------------------------------------------ martingale_strategy
\* variant: the reverse_signals option is ignored
sig_mult_ignored(c) == 1

sig_mult(c) == IF c.reverse_signals THEN -1 ELSE 1

\* df['Signal'] = df['Signal'] * sig_mult
ReversedSignal(sigcol, c) == [k \in DOMAIN sigcol |-> sigcol[k] * sig_mult(c)]

Fill(k, action, price, position, note) ==
    [Datetime |-> k, Action |-> action, Close |-> price,
     Position |-> position, Note |-> note]

OpenAction(s) == IF s = 1 THEN "BUY" ELSE "SELL"
CloseAction(s) == IF s = 1 THEN "SELL" ELSE "BUY"

\* the engine's mutable state as one record
MartState(sd, lot, entry, pos, pnl, closed, tr) ==
    [side |-> sd, current_lot |-> lot, entry_price |-> entry,
     Position |-> pos, PnL |-> pnl, Closed |-> closed, trades |-> tr]

\* lines 199-201 and 194-197: state before the loop
MartStart(n) ==
    MartState(0, 0, None, Column(n, 0), Column(n, 0), Column(n, 0), <<>>)

Processed(close, k) == k >= 1 /\ ~isna(close[k - 1]) /\ ~isna(close[k])

\* Open when flat and a signal appears
MartOpen(st, k, close, sigcol, c) ==
    LET sig == sigcol[k - 1] IN
    IF st.side = 0 /\ sig # 0
    THEN [st EXCEPT !.side = sig,
                    !.current_lot = c.base_lot,
                    !.entry_price = close[k - 1],
                    !.trades = Append(@, Fill(k - 1, OpenAction(sig), close[k - 1],
                                              c.base_lot * sig, <<"Open">>))]
    ELSE st

\* bar P&L and position of an open trade
MartAccrue(st, k, close) ==
    LET delta == (close[k] - close[k - 1]) * st.side
        bar_pnl == delta * st.current_lot
    IN [st EXCEPT !.PnL[k] = bar_pnl,
                  !.Position[k] = st.current_lot * st.side]

\* variant: take-profit needs a strict excess over the target
TakeProfitStrict(st, k, close, c) ==
    (close[k] - st.entry_price) * st.side > c.take_profit

TakeProfitHit(st, k, close, c) ==
    (close[k] - st.entry_price) * st.side >= c.take_profit

\* variant: the take-profit close is stamped with the following bar
MartTakeProfitStampedLate(st, k, close, c) ==
    [st EXCEPT !.trades = Append(@, Fill(k + 1, CloseAction(st.side), close[k], 0,
                                         <<"TP close", c.take_profit>>)),
               !.Position[k] = 0,
               !.Closed[k] = 1,
               !.side = 0,
               !.current_lot = 0,
               !.entry_price = None]

\* variant: the take-profit close forgets to reset the lot
MartTakeProfitKeepsLot(st, k, close, c) ==
    [st EXCEPT !.trades = Append(@, Fill(k, CloseAction(st.side), close[k], 0,
                                         <<"TP close", c.take_profit>>)),
               !.Position[k] = 0,
               !.Closed[k] = 1,
               !.side = 0,
               !.entry_price = None]

MartTakeProfit(st, k, close, c) ==
    [st EXCEPT !.trades = Append(@, Fill(k, CloseAction(st.side), close[k], 0,
                                         <<"TP close", c.take_profit>>)),
               !.Position[k] = 0,
               !.Closed[k] = 1,
               !.side = 0,
               !.current_lot = 0,
               !.entry_price = None]

\* variant: an add needs an adverse excursion of at least step
AddHitAdverseOnly(st, k, close, c) ==
    (close[k] - st.entry_price) * st.side <= -c.step

AddHit(st, k, close, c) == Abs(close[k] - st.entry_price) >= c.step

\* variant: an add grows the lot by base_lot instead of scaling it
MartAddLinear(st, k, close, c) ==
    IF AddHit(st, k, close, c)
    THEN LET lot == IF st.current_lot > 0 THEN st.current_lot + c.base_lot
                    ELSE c.base_lot
         IN [st EXCEPT !.current_lot = lot,
                       !.entry_price = close[k],
                       !.trades = Append(@, Fill(k, OpenAction(st.side), close[k],
                                                 lot * st.side,
                                                 <<"Add x", c.multiplier>>))]
    ELSE st

MartAdd(st, k, close, c) ==
    IF AddHit(st, k, close, c)
    THEN LET lot == IF st.current_lot > 0 THEN st.current_lot * c.multiplier
                    ELSE c.base_lot
         IN [st EXCEPT !.current_lot = lot,
                       !.entry_price = close[k],
                       !.trades = Append(@, Fill(k, OpenAction(st.side), close[k],
                                                 lot * st.side,
                                                 <<"Add x", c.multiplier>>))]
    ELSE st

FlipSignal(st, k, sigcol) ==
    st.side # 0 /\ sigcol[k - 1] # 0 /\ sigcol[k - 1] # st.side

in_drawdown(st, k, close) ==
    IF st.entry_price # None THEN (close[k] - st.entry_price) * st.side < 0
    ELSE FALSE

\* variant: an opposite signal flips the position even in drawdown
MartFlipInDrawdown(st, k, close, sigcol, c) ==
    LET sig == sigcol[k - 1] IN
    IF FlipSignal(st, k, sigcol)
    THEN [st EXCEPT
            !.trades = @ \o
                <<Fill(k, CloseAction(st.side), close[k], 0,
                       IF c.close_on_flip THEN <<"Flip close">>
                       ELSE <<"Flip close (no DD)">>),
                  Fill(k, OpenAction(sig), close[k], c.base_lot * sig,
                       <<"Flip open">>)>>,
            !.Closed[k] = 1,
            !.Position[k] = c.base_lot * sig,
            !.side = sig,
            !.current_lot = c.base_lot,
            !.entry_price = close[k]]
    ELSE st

\* variant: a flip opens the new side without a closing fill for the old one
MartFlipOpenOnly(st, k, close, sigcol, c) ==
    LET sig == sigcol[k - 1] IN
    IF FlipSignal(st, k, sigcol) /\ (c.close_on_flip \/ ~in_drawdown(st, k, close))
    THEN [st EXCEPT
            !.trades = Append(@, Fill(k, OpenAction(sig), close[k],
                                      c.base_lot * sig, <<"Flip open">>)),
            !.Closed[k] = 1,
            !.Position[k] = c.base_lot * sig,
            !.side = sig,
            !.current_lot = c.base_lot,
            !.entry_price = close[k]]
    ELSE st

\* variant: a flip does not raise the bar's Closed flag
MartFlipNoFlag(st, k, close, sigcol, c) ==
    LET sig == sigcol[k - 1] IN
    IF FlipSignal(st, k, sigcol) /\ (c.close_on_flip \/ ~in_drawdown(st, k, close))
    THEN [st EXCEPT
            !.trades = @ \o
                <<Fill(k, CloseAction(st.side), close[k], 0,
                       IF c.close_on_flip THEN <<"Flip close">>
                       ELSE <<"Flip close (no DD)">>),
                  Fill(k, OpenAction(sig), close[k], c.base_lot * sig,
                       <<"Flip open">>)>>,
            !.Position[k] = c.base_lot * sig,
            !.side = sig,
            !.current_lot = c.base_lot,
            !.entry_price = close[k]]
    ELSE st

MartFlip(st, k, close, sigcol, c) ==
    LET sig == sigcol[k - 1] IN
    IF FlipSignal(st, k, sigcol) /\ (c.close_on_flip \/ ~in_drawdown(st, k, close))
    THEN [st EXCEPT
            !.trades = @ \o
                <<Fill(k, CloseAction(st.side), close[k], 0,
                       IF c.close_on_flip THEN <<"Flip close">>
                       ELSE <<"Flip close (no DD)">>),
                  Fill(k, OpenAction(sig), close[k], c.base_lot * sig,
                       <<"Flip open">>)>>,
            !.Closed[k] = 1,
            !.Position[k] = c.base_lot * sig,
            !.side = sig,
            !.current_lot = c.base_lot,
            !.entry_price = close[k]]
    ELSE st

\* variant: the add check runs before the take-profit check
MartBarAddFirst(st, k, close, sigcol, c) ==
    LET a == MartOpen(st, k, close, sigcol, c) IN
    IF a.side # 0 /\ a.entry_price # None
    THEN LET b == MartAdd(MartAccrue(a, k, close), k, close, c) IN
         IF TakeProfitHit(b, k, close, c)
         THEN MartTakeProfit(b, k, close, c)
         ELSE MartFlip(b, k, close, sigcol, c)
    ELSE MartFlip(a, k, close, sigcol, c)

\* variant: the flip check measures drawdown against the entry before the add
MartBarFlipOnOldEntry(st, k, close, sigcol, c) ==
    LET a == MartOpen(st, k, close, sigcol, c) IN
    IF a.side # 0 /\ a.entry_price # None
    THEN LET b == MartAccrue(a, k, close) IN
         IF TakeProfitHit(b, k, close, c)
         THEN MartTakeProfit(b, k, close, c)
         ELSE IF ~c.close_on_flip /\ in_drawdown(b, k, close)
              THEN MartAdd(b, k, close, c)
              ELSE MartFlip(MartAdd(b, k, close, c), k, close, sigcol, c)
    ELSE MartFlip(a, k, close, sigcol, c)

\* one iteration of the loop on a bar whose two prices are numbers
MartBar(st, k, close, sigcol, c) ==
    LET a == MartOpen(st, k, close, sigcol, c) IN
    IF a.side # 0 /\ a.entry_price # None
    THEN LET b == MartAccrue(a, k, close) IN
         IF TakeProfitHit(b, k, close, c)
         THEN MartTakeProfit(b, k, close, c)
         ELSE MartFlip(MartAdd(b, k, close, c), k, close, sigcol, c)
    ELSE MartFlip(a, k, close, sigcol, c)

\* variant: only the current price is tested before the bar is processed
MartIterCurrentOnly(st, k, close, sigcol, c) ==
    IF isna(close[k]) THEN st
    ELSE MartBar(st, k, close, sigcol, c)

\* one iteration of the loop, the `continue` of a non-numeric price included
MartIter(st, k, close, sigcol, c) ==
    IF isna(close[k - 1]) \/ isna(close[k]) THEN st
    ELSE MartBar(st, k, close, sigcol, c)

\* variant: the session close leaves the final bar's Closed flag alone
MartSessionCloseNoFlag(st, close) ==
    IF st.side # 0 /\ st.entry_price # None /\ len(close) > 0
    THEN LET last_i == len(close) - 1 IN
         [st EXCEPT !.trades = Append(@, Fill(last_i, CloseAction(st.side),
                                              close[last_i], 0,
                                              <<"Session close">>)),
                    !.Position[last_i] = 0]
    ELSE st

\* variant: the session close leaves the final bar's Position alone
MartSessionCloseKeepsPosition(st, close) ==
    IF st.side # 0 /\ st.entry_price # None /\ len(close) > 0
    THEN LET last_i == len(close) - 1 IN
         [st EXCEPT !.trades = Append(@, Fill(last_i, CloseAction(st.side),
                                              close[last_i], 0,
                                              <<"Session close">>)),
                    !.Closed[last_i] = 1]
    ELSE st

\* Force close at end of session if still open
MartSessionClose(st, close) ==
    IF st.side # 0 /\ st.entry_price # None /\ len(close) > 0
    THEN LET last_i == len(close) - 1 IN
         [st EXCEPT !.trades = Append(@, Fill(last_i, CloseAction(st.side),
                                              close[last_i], 0,
                                              <<"Session close">>)),
                    !.Position[last_i] = 0,
                    !.Closed[last_i] = 1]
    ELSE st

\* ---------------------------------------------------------- execute_signals
ExecState(sp, pos, pnl, closed) ==
    [side_prev |-> sp, Position |-> pos, PnL |-> pnl, Closed |-> closed]

ExecStart(n) == ExecState(0, Column(n, 0), Column(n, 0), Column(n, 0))

\* variant: a zero signal always flattens, whatever flat_on_zero says
target_side_always_flat(st, k, sigcol, c) == sigcol[k - 1]

target_side(st, k, sigcol, c) ==
    LET sig_prev == sigcol[k - 1] IN
    IF sig_prev # 0 \/ c.flat_on_zero THEN sig_prev ELSE st.side_prev

\* variant: the flag is raised on every change of side, an open from flat included
ExecBarClosedOnAnyChange(st, k, close, sigcol, c) ==
    LET target == target_side(st, k, sigcol, c)
        pnl == IF st.side_prev # 0
               THEN [st.PnL EXCEPT ![k] = (close[k] - close[k - 1])
                                            * st.side_prev * c.position_size]
               ELSE st.PnL
        closed == IF target # st.side_prev
                  THEN [st.Closed EXCEPT ![k] = 1]
                  ELSE st.Closed
    IN ExecState(target,
                 [st.Position EXCEPT ![k] = target * c.position_size],
                 pnl, closed)

\* variant: the bar's price change is credited to the side adopted on the bar
ExecBarPnLOfNewSide(st, k, close, sigcol, c) ==
    LET target == target_side(st, k, sigcol, c)
        pnl == IF target # 0
               THEN [st.PnL EXCEPT ![k] = (close[k] - close[k - 1])
                                            * target * c.position_size]
               ELSE st.PnL
        closed == IF st.side_prev # 0 /\ target # st.side_prev
                  THEN [st.Closed EXCEPT ![k] = 1]
                  ELSE st.Closed
    IN ExecState(target,
                 [st.Position EXCEPT ![k] = target * c.position_size],
                 pnl, closed)

ExecBar(st, k, close, sigcol, c) ==
    LET target == target_side(st, k, sigcol, c)
        pnl == IF st.side_prev # 0
               THEN [st.PnL EXCEPT ![k] = (close[k] - close[k - 1])
                                            * st.side_prev * c.position_size]
               ELSE st.PnL
        closed == IF st.side_prev # 0 /\ target # st.side_prev
                  THEN [st.Closed EXCEPT ![k] = 1]
                  ELSE st.Closed
    IN ExecState(target,
                 [st.Position EXCEPT ![k] = target * c.position_size],
                 pnl, closed)

ExecIter(st, k, close, sigcol, c) ==
    IF isna(close[k - 1]) \/ isna(close[k]) THEN st
    ELSE ExecBar(st, k, close, sigcol, c)

\* variant: the final bar is marked closed whether or not a trade is open
ExecForceCloseAlways(st, close) ==
    IF len(close) > 0
    THEN [st EXCEPT !.Closed[len(close) - 1] = 1]
    ELSE st

\* Force-close on final bar if still in a trade
ExecForceClose(st, close) ==
    IF st.side_prev # 0 /\ len(close) > 0
    THEN [st EXCEPT !.Closed[len(close) - 1] = 1]
    ELSE st

\* --------------------------------- backtest._extract_trades_from_positions
fillna(col) == [k \in DOMAIN col |-> IF isna(col[k]) THEN 0 ELSE col[k]]

RECURSIVE SumRange(_, _, _)
\* sum of col[lo..hi-1], the slice .iloc[lo:hi]
SumRange(col, lo, hi) ==
    IF lo >= hi THEN 0 ELSE col[hi - 1] + SumRange(col, lo, hi - 1)

Direction(p) == IF p > 0 THEN "LONG" ELSE "SHORT"

\* variant: the entry bar's P&L is counted in the trade
TradeFromEntryBar(entry, exit, p, pnlcol) ==
    [EntryTime |-> entry, ExitTime |-> exit, Direction |-> Direction(p),
     TradePnL |-> SumRange(pnlcol, entry, exit + 1)]

Trade(entry, exit, p, pnlcol) ==
    [EntryTime |-> entry, ExitTime |-> exit, Direction |-> Direction(p),
     TradePnL |-> SumRange(pnlcol, entry + 1, exit + 1)]

ExtractState(it, ei, ep, tr) ==
    [in_trade |-> it, entry_i |-> ei, entry_pos |-> ep, trades |-> tr]

ExtractStart == ExtractState(FALSE, None, 0, <<>>)

\* variant: no new trade is started on the bar that closes one
ExtractBarNoReentry(x, k, poscol, closedcol, pnlcol) ==
    LET pos == fillna(poscol)
        closed == fillna(closedcol)
    IN IF ~x.in_trade
       THEN IF pos[k] # 0 /\ (k = 0 \/ pos[k - 1] = 0)
            THEN [x EXCEPT !.in_trade = TRUE, !.entry_i = k, !.entry_pos = pos[k]]
            ELSE x
       ELSE IF closed[k] = 1
            THEN ExtractState(FALSE, None, 0,
                              Append(x.trades, Trade(x.entry_i, k, x.entry_pos, pnlcol)))
            ELSE x

\* one iteration of the scan
ExtractBar(x, k, poscol, closedcol, pnlcol) ==
    LET pos == fillna(poscol)
        closed == fillna(closedcol)
    IN IF ~x.in_trade
       THEN IF pos[k] # 0 /\ (k = 0 \/ pos[k - 1] = 0)
            THEN [x EXCEPT !.in_trade = TRUE, !.entry_i = k, !.entry_pos = pos[k]]
            ELSE x
       ELSE IF closed[k] = 1
            THEN LET t == Trade(x.entry_i, k, x.entry_pos, pnlcol) IN
                 IF pos[k] # 0
                 THEN ExtractState(TRUE, k, pos[k], Append(x.trades, t))
                 ELSE ExtractState(FALSE, None, 0, Append(x.trades, t))
            ELSE x

\* If session is up while in a trade, close it at the last bar
ExtractTail(x, poscol, pnlcol) ==
    IF x.in_trade /\ x.entry_i # None
    THEN Append(x.trades, Trade(x.entry_i, len(poscol) - 1, x.entry_pos, pnlcol))
    ELSE x.trades

\* ----------------------------------- report._extract_trades_from_positions
\* one iteration of the scan: a trade ends on the first bar back at zero
ReportExtractBar(x, k, poscol, pnlcol) ==
    LET pos == fillna(poscol)
    IN IF ~x.in_trade
       THEN IF pos[k] # 0 /\ (k = 0 \/ pos[k - 1] = 0)
            THEN [x EXCEPT !.in_trade = TRUE, !.entry_i = k, !.entry_pos = pos[k]]
            ELSE x
       ELSE IF pos[k] = 0
            THEN [x EXCEPT !.in_trade = FALSE, !.entry_i = None,
                           !.trades = Append(@, Trade(x.entry_i, k, x.entry_pos,
                                                      pnlcol))]
            ELSE x

RECURSIVE ReportExtractLoop(_, _, _, _, _)
ReportExtractLoop(x, k, n, poscol, pnlcol) ==
    IF k >= n THEN x
    ELSE ReportExtractLoop(ReportExtractBar(x, k, poscol, pnlcol), k + 1, n,
                           poscol, pnlcol)

\* report._extract_trades_from_positions(df) as a function of the columns it
\* reads; its synthetic close is the one of backtest.py
ReportExtractRun(poscol, pnlcol) ==
    IF len(poscol) = 0 THEN <<>>
    ELSE ExtractTail(ReportExtractLoop(ExtractStart, 0, len(poscol), poscol, pnlcol),
                     poscol, pnlcol)

\* ------------------------------------------------------------- whole runs
RECURSIVE MartLoop(_, _, _, _, _)
\* the iterations k .. len(df)-1 of the loop, from state st
MartLoop(st, k, close, sigcol, c) ==
    IF k >= len(close) THEN st
    ELSE MartLoop(MartIter(st, k, close, sigcol, c), k + 1, close, sigcol, c)

\* martingale_strategy(df, **c) as a function of its arguments
MartRun(close, sigcol, c) ==
    MartSessionClose(
        MartLoop(MartStart(len(close)), 1, close, ReversedSignal(sigcol, c), c),
        close)

RECURSIVE ExtractLoop(_, _, _, _, _, _)
\* the iterations k .. n-1 of the scan, from state x
ExtractLoop(x, k, n, poscol, closedcol, pnlcol) ==
    IF k >= n THEN x
    ELSE ExtractLoop(ExtractBar(x, k, poscol, closedcol, pnlcol), k + 1, n,
                     poscol, closedcol, pnlcol)

\* _extract_trades_from_positions(df) as a function of the columns it reads
ExtractRun(poscol, closedcol, pnlcol) ==
    IF len(poscol) = 0 THEN <<>>
    ELSE ExtractTail(ExtractLoop(ExtractStart, 0, len(poscol),
                                 poscol, closedcol, pnlcol),
                     poscol, pnlcol)

\* ------------------------------------------------------------ state machine
CurMart == MartState(side, current_lot, entry_price, Position, PnL, Closed, trades)
CurExec == ExecState(side_prev, Position, PnL, Closed)

SetMart(st) ==
    /\ side' = st.side
    /\ current_lot' = st.current_lot
    /\ entry_price' = st.entry_price
    /\ Position' = st.Position
    /\ PnL' = st.PnL
    /\ Closed' = st.Closed
    /\ trades' = st.trades

SetExec(st) ==
    /\ side_prev' = st.side_prev
    /\ Position' = st.Position
    /\ PnL' = st.PnL
    /\ Closed' = st.Closed

InitLocals ==
    /\ pc = "call"
    /\ dfSignal = Signal
    /\ Position = Column(0, 0)
    /\ PnL = Column(0, 0)
    /\ Closed = Column(0, 0)
    /\ trades = <<>>
    /\ side = 0
    /\ current_lot = 0
    /\ entry_price = None
    /\ side_prev = 0
    /\ i = 1
    /\ trade_summ = <<>>
    /\ report_summ = <<>>
    /\ start_date = 0
    /\ end_date = 0
    /\ start = 0
    /\ all_data = <<>>

BoundedFrame ==
    \E n \in 0..MaxLen :
        /\ Close \in [0..(n - 1) -> PriceVals]
        /\ Signal \in [0..(n - 1) -> SignalVals]

ScenarioFrame ==
    /\ Close = ScenarioClose
    /\ Signal = ScenarioSignal
    /\ engine = "martingale"
    /\ cfg = ScenarioConfig

Init ==
    /\ \/ /\ BoundedFrame
          /\ \/ engine = "martingale" /\ cfg \in MartConfigs
             \/ engine = "execute" /\ cfg \in ExecConfigs
       \/ ScenarioFrame
    /\ InitLocals

\* martingale_strategy, lines 188-201: copy the frame, reverse the signals,
\* add the output columns, start flat
MartingaleEnter ==
    /\ pc = "call"
    /\ engine = "martingale"
    /\ dfSignal' = ReversedSignal(Signal, cfg)
    /\ SetMart(MartStart(len(Close)))
    /\ i' = 1
    /\ pc' = "martingale"
    /\ UNCHANGED <<inputVars, side_prev, trade_summ, report_summ, fetchVars>>

\* one iteration of `for i in range(1, len(df))`
MartingaleBar ==
    /\ pc = "martingale"
    /\ i < len(Close)
    /\ SetMart(MartIter(CurMart, i, Close, dfSignal, cfg))
    /\ i' = i + 1
    /\ UNCHANGED <<inputVars, pc, dfSignal, side_prev, trade_summ, report_summ, fetchVars>>

\* lines 291-306: session close and return
MartingaleSessionClose ==
    /\ pc = "martingale"
    /\ i >= len(Close)
    /\ SetMart(MartSessionClose(CurMart, Close))
    /\ pc' = "backtest"
    /\ UNCHANGED <<inputVars, dfSignal, side_prev, i, trade_summ, report_summ, fetchVars>>

\* execute_signals, lines 140-147
ExecuteEnter ==
    /\ pc = "call"
    /\ engine = "execute"
    /\ SetExec(ExecStart(len(Close)))
    /\ i' = 1
    /\ pc' = "execute"
    /\ UNCHANGED <<inputVars, dfSignal, martVars, trade_summ, report_summ, fetchVars>>

ExecuteBar ==
    /\ pc = "execute"
    /\ i < len(Close)
    /\ SetExec(ExecIter(CurExec, i, Close, dfSignal, cfg))
    /\ i' = i + 1
    /\ UNCHANGED <<inputVars, pc, dfSignal, martVars, trade_summ, report_summ, fetchVars>>

ExecuteForceClose ==
    /\ pc = "execute"
    /\ i >= len(Close)
    /\ SetExec(ExecForceClose(CurExec, Close))
    /\ pc' = "backtest"
    /\ UNCHANGED <<inputVars, dfSignal, i, martVars, trade_summ, report_summ, fetchVars>>

\* backtest(df): the trade table built from the engine's columns
Backtest ==
    /\ pc = "backtest"
    /\ trade_summ' = ExtractRun(Position, Closed, PnL)
    /\ pc' = "done"
    /\ UNCHANGED <<inputVars, dfSignal, Position, PnL, Closed, martVars,
                   side_prev, i, report_summ, fetchVars>>

\* performance_report(df) without a saved summary: the trade table is rebuilt
\* from the Position column
PerformanceReport ==
    /\ pc = "done"
    /\ report_summ' = ReportExtractRun(Position, PnL)
    /\ pc' = "reported"
    /\ UNCHANGED <<inputVars, dfSignal, Position, PnL, Closed, martVars,
                   side_prev, i, trade_summ, fetchVars>>

Next ==
    \/ MartingaleEnter
    \/ MartingaleBar
    \/ MartingaleSessionClose
    \/ ExecuteEnter
    \/ ExecuteBar
    \/ ExecuteForceClose
    \/ Backtest
    \/ PerformanceReport

Spec == Init /\ [][Next]_vars

\* SpecCfg: as Spec, with the martingale engine also called with a
\* non-positive option
InitCfg ==
    /\ \/ /\ BoundedFrame
          /\ \/ engine = "martingale" /\ cfg \in (MartConfigs \cup BadMartConfigs)
             \/ engine = "execute" /\ cfg \in ExecConfigs
       \/ ScenarioFrame
    /\ InitLocals

SpecCfg == InitCfg /\ [][Next]_vars

\* ---------------------------------------------------------------- fetch_data
Min(a, b) == IF a <= b THEN a ELSE b

\* one pass of the while loop: request [start, chunk_end), move on
FetchChunk ==
    /\ pc = "fetch"
    /\ start < end_date
    /\ LET chunk_end == Min(start + chunk_size, end_date) IN
          /\ all_data' = Append(all_data, <<start, chunk_end>>)
          /\ start' = chunk_end + 1
    /\ UNCHANGED <<inputVars, pc, dfSignal, Position, PnL, Closed, martVars,
                   side_prev, i, trade_summ, report_summ, start_date, end_date>>

\* the loop condition fails: the chunks are concatenated and returned
FetchReturn ==
    /\ pc = "fetch"
    /\ ~(start < end_date)
    /\ pc' = "fetched"
    /\ UNCHANGED <<inputVars, dfSignal, Position, PnL, Closed, martVars,
                   side_prev, i, trade_summ, report_summ, fetchVars>>

\* fetch_data(ticker, start_date, end_date) on any two dates
InitFetch ==
    /\ engine = "fetch"
    /\ Close = Column(0, 0)
    /\ Signal = Column(0, 0)
    /\ cfg = [chunk_size |-> chunk_size]
    /\ pc = "fetch"
    /\ dfSignal = Signal
    /\ Position = Column(0, 0)
    /\ PnL = Column(0, 0)
    /\ Closed = Column(0, 0)
    /\ trades = <<>>
    /\ side = 0
    /\ current_lot = 0
    /\ entry_price = None
    /\ side_prev = 0
    /\ i = 1
    /\ trade_summ = <<>>
    /\ report_summ = <<>>
    /\ start_date \in 0..MaxDate
    /\ end_date \in 0..MaxDate
    /\ start = start_date
    /\ all_data = <<>>

NextFetch == FetchChunk \/ FetchReturn

SpecFetch == InitFetch /\ [][NextFetch]_vars

\* -------------------------------------------------------------- properties
RECURSIVE SumTradePnL(_)
SumTradePnL(tr) ==
    IF tr = <<>> THEN 0 ELSE Head(tr).TradePnL + SumTradePnL(Tail(tr))

TotalPnL == SumRange(PnL, 0, len(PnL))

EngineReturned == pc \in {"backtest", "done"}

LastRow == len(Close) - 1

IsScenario == Close = ScenarioClose /\ Signal = ScenarioSignal /\ cfg = ScenarioConfig

\* the fills appended by the step being taken
NewFills == SubSeq(trades', Len(trades) + 1, Len(trades'))

\* the martingale loop is about to run iteration i on two numeric prices
MartProcessing ==
    /\ pc = "martingale"
    /\ i < len(Close)
    /\ Processed(Close, i)

\* C1: for every run of the martingale engine, the sum of the P&L column over
\* all bars equals the sum of TradePnL over the reconstructed trades.
C1_MartingaleConservation ==
    (pc = "done" /\ engine = "martingale") => TotalPnL = SumTradePnL(trade_summ)

\* C2: for every run of execute_signals (flat_on_zero true or false), the sum
\* of the P&L column over all bars equals the sum of TradePnL over the
\* reconstructed trades.
C2_ExecuteConservation ==
    (pc = "done" /\ engine = "execute") => TotalPnL = SumTradePnL(trade_summ)

\* a finished execute_signals run with a flip, two trades and money made or lost
C2_Witness ==
    /\ pc = "done"
    /\ engine = "execute"
    /\ Len(trade_summ) >= 2
    /\ TotalPnL # 0
    /\ \E k \in Rows(Close) : Closed[k] = 1 /\ Position[k] # 0 /\ PnL[k] # 0

HasOpenFill == \E f \in 1..Len(trades) : trades[f].Note = <<"Open">>

MartFlatBeforeFirstBar ==
    (engine = "martingale" /\ pc = "martingale" /\ i = 1)
        => (side = 0 /\ current_lot = 0 /\ entry_price = None /\ trades = <<>>)

\* C3 as stated: the engine is flat before the first bar, and in every run
\* whose ledger contains an Open fill the final bar's Closed flag is 1.
C3_ClosedWheneverOpened ==
    /\ MartFlatBeforeFirstBar
    /\ (engine = "martingale" /\ EngineReturned /\ HasOpenFill)
        => Closed[LastRow] = 1

\* C3 amended: the engine is flat before the first bar, and in every run in
\* which a position is still open after the last bar has been processed the
\* final bar's Closed flag is 1.
C3_ClosedWhenStillOpen ==
    /\ MartFlatBeforeFirstBar
    /\ (engine = "martingale" /\ EngineReturned /\ side # 0)
        => Closed[LastRow] = 1

\* a returned martingale run that opened a position and still held one at the end
C3_Witness ==
    /\ engine = "martingale"
    /\ pc = "backtest"
    /\ HasOpenFill
    /\ side # 0
    /\ Closed[LastRow] = 1

\* the position held on bar i once the open check has run
HeldSide == IF side # 0 THEN side ELSE dfSignal[i - 1]
HeldEntry == IF side # 0 THEN entry_price ELSE Close[i - 1]

BothThresholdsCrossed ==
    /\ MartProcessing
    /\ HeldSide # 0
    /\ (Close[i] - HeldEntry) * HeldSide >= cfg.take_profit
    /\ Abs(Close[i] - HeldEntry) >= cfg.step

FillsOfBar(fs, k) == SelectSeq(fs, LAMBDA f : f.Datetime = k)

\* C4: on a processed bar where the held position has crossed both the
\* take-profit and the add threshold, the engine emits exactly one fill for
\* the bar, a TP close, no Add and no flip fill, sets Position = 0 and
\* Closed = 1 for the bar and ends the bar flat.
C4_TakeProfitPrecedence ==
    [][BothThresholdsCrossed =>
        /\ FillsOfBar(NewFills, i) =
              <<Fill(i, CloseAction(HeldSide), Close[i], 0,
                     <<"TP close", cfg.take_profit>>)>>
        /\ \A f \in 1..Len(NewFills) :
              NewFills[f].Note[1] \in {"Open", "TP close"}
        /\ Position'[i] = 0
        /\ Closed'[i] = 1
        /\ side' = 0
        /\ current_lot' = 0
        /\ entry_price' = None]_vars

\* a bar closed by take-profit on which the add threshold was crossed too
C4_Witness ==
    /\ engine = "martingale"
    /\ pc = "martingale"
    /\ i >= 2
    /\ Processed(Close, i - 1)
    /\ side = 0
    /\ Closed[i - 1] = 1
    /\ trades # <<>>
    /\ LET f == trades[Len(trades)] IN
          /\ f.Note[1] = "TP close"
          /\ f.Datetime = i - 1
          /\ Abs(Close[i - 1] - Close[i - 2]) >= cfg.step
          /\ Len(trades) >= 2
          /\ trades[Len(trades) - 1].Note = <<"Open">>
          /\ trades[Len(trades) - 1].Datetime = i - 2

\* bar i is processed with close_on_flip = false on a held position that is
\* in drawdown at the bar's close, and the lagged signal is opposite to it
OppositeSignalInDrawdown ==
    /\ engine = "martingale"
    /\ MartProcessing
    /\ ~cfg.close_on_flip
    /\ side # 0
    /\ dfSignal[i - 1] # 0
    /\ dfSignal[i - 1] # side
    /\ (Close[i] - entry_price) * side < 0

AddFillOn(k) ==
    \E f \in 1..Len(trades) : trades[f].Note[1] = "Add x" /\ trades[f].Datetime = k

\* C5 as stated: with close_on_flip = false, on a processed bar where the
\* lagged signal is opposite to the held side and (close - entry) * side < 0,
\* the engine appends no fill, keeps side, lot and entry price, and
\* Position[i] equals Position[i-1].
C5_FlipSuppressed ==
    [][OppositeSignalInDrawdown =>
        /\ trades' = trades
        /\ side' = side
        /\ current_lot' = current_lot
        /\ entry_price' = entry_price
        /\ Position'[i] = Position[i - 1]]_vars

\* C5 amended: ... and the drawdown is smaller than step (no Add re-anchors
\* the entry price on the bar), the engine appends no fill, keeps side, lot
\* and entry price, and Position[i] is the exposure side * lot of the position
\* carried into the bar; that is Position[i-1] when bar i-1 was processed
\* without an Add.
C5_FlipSuppressedBelowStep ==
    [][(OppositeSignalInDrawdown /\ Abs(Close[i] - entry_price) < cfg.step) =>
        /\ trades' = trades
        /\ side' = side
        /\ current_lot' = current_lot
        /\ entry_price' = entry_price
        /\ Closed'[i] = 0
        /\ Position'[i] = side * current_lot
        /\ (Processed(Close, i - 1) /\ ~AddFillOn(i - 1))
              => Position'[i] = Position[i - 1]]_vars

\* bar i-1 has just been processed: its opposite signal was ignored on a
\* position in drawdown, nothing was appended for it
C5_Witness ==
    /\ engine = "martingale"
    /\ pc = "martingale"
    /\ i >= 3
    /\ Processed(Close, i - 1)
    /\ ~cfg.close_on_flip
    /\ side # 0
    /\ dfSignal[i - 2] = -side
    /\ (Close[i - 1] - entry_price) * side < 0
    /\ FillsOfBar(trades, i - 1) = <<>>
    /\ Closed[i - 1] = 0
    /\ Position[i - 1] = side * current_lot
    /\ Position[i - 1] = Position[i - 2]

NegatedSignal == [k \in DOMAIN Signal |-> -Signal[k]]

\* C6: martingale_strategy with reverse_signals = r on a signal series s gives
\* the same Position, P&L and Closed columns and the same ledger as
\* martingale_strategy with reverse_signals = ~r on the negated series -s.
C6_ReversalEquivalence ==
    (engine = "martingale" /\ pc = "backtest") =>
        LET other == MartRun(Close, NegatedSignal,
                             [cfg EXCEPT !.reverse_signals = ~@])
        IN /\ Position = other.Position
           /\ PnL = other.PnL
           /\ Closed = other.Closed
           /\ trades = other.trades

\* a reversed run on the all +1 series that traded short
C6_Witness ==
    /\ engine = "martingale"
    /\ pc = "backtest"
    /\ cfg.reverse_signals
    /\ len(Close) >= 3
    /\ \A k \in Rows(Signal) : Signal[k] = 1
    /\ Len(trades) >= 2
    /\ trades[1].Action = "SELL"

\* C7: a call of martingale_strategy with a non-positive base_lot, step,
\* multiplier or take_profit processes no bar and returns nothing.
C7_ConfigurationRejected ==
    (engine = "martingale" /\ ~ValidConfig(cfg)) =>
        /\ ~EngineReturned
        /\ (pc = "martingale" => i = 1)

ScenarioReturned == IsScenario /\ engine = "martingale" /\ pc = "backtest"

ScenarioOpen == Fill(0, "BUY", 100, 1, <<"Open">>)
ScenarioTakeProfit == Fill(4, "SELL", 108, 0, <<"TP close", 8>>)

\* C8 as stated: in the acceptance scenario the engine opens long at 100,
\* emits an Add fill on bar 3 (price 92) that scales the lot to 2, and closes
\* by take-profit on bar 4 (price 108).
C8_ScenarioWithAdd ==
    ScenarioReturned =>
        /\ trades[1] = ScenarioOpen
        /\ \E f \in 1..Len(trades) :
              /\ trades[f].Note[1] = "Add x"
              /\ trades[f].Datetime = 3
              /\ trades[f].Close = 92
              /\ trades[f].Position = 2
        /\ trades[Len(trades)] = ScenarioTakeProfit

\* C8 amended: in the acceptance scenario the engine opens long at 100 on
\* bar 1, emits no Add fill (on bar 3 the distance |92 - 100| = 8 is below
\* step = 10, the lot stays 1), and closes by take-profit on bar 4 (108).
C8_ScenarioNoAdd ==
    ScenarioReturned =>
        /\ trades = <<ScenarioOpen, ScenarioTakeProfit>>
        /\ Position = [k \in 0..4 |-> IF k \in 1..3 THEN 1 ELSE 0]
        /\ PnL = [k \in 0..4 |-> CASE k = 0 -> 0 [] k = 1 -> 2 [] k = 2 -> 2
                                   [] k = 3 -> -12 [] OTHER -> 16]
        /\ Closed = [k \in 0..4 |-> IF k = 4 THEN 1 ELSE 0]
        /\ side = 0
        /\ current_lot = 0

C8_Witness == ScenarioReturned /\ Len(trades) = 2

\* C9: in every run of either engine bar 0 has P&L = 0 and Closed = 0; for a
\* series of length 1 no bar has a non-zero P&L, the ledger is empty and the
\* reconstruction returns no trade.
C9_FirstBar ==
    (pc # "call" /\ len(Close) >= 1) =>
        /\ PnL[0] = 0
        /\ Closed[0] = 0
        /\ len(Close) = 1 =>
              /\ \A k \in Rows(PnL) : PnL[k] = 0
              /\ trades = <<>>
              /\ trade_summ = <<>>

\* a finished run over a single bar that carried a signal
C9_Witness ==
    /\ pc = "done"
    /\ len(Close) = 1
    /\ Signal[0] # 0
    /\ ~isna(Close[0])

\* the locals of the scan when it reaches bar k
ScanAt(k) == ExtractLoop(ExtractStart, 0, k, Position, Closed, PnL)

\* bar k closes the trade in progress and shows a position
FlipBar(k) == ScanAt(k).in_trade /\ Closed[k] = 1 /\ Position[k] # 0

\* C10: for every bar that closes the trade in progress (Closed = 1) and
\* carries a non-zero Position, the trade table holds the trade in progress
\* with ExitTime = that bar, immediately followed by a separate trade with
\* EntryTime = that bar and the direction of the bar's Position; no trade runs
\* across the bar.
C10_FlipTwoTrades ==
    pc = "done" =>
        \A k \in Rows(Position) :
            FlipBar(k) =>
                /\ \E a \in 1..(Len(trade_summ) - 1) :
                      /\ trade_summ[a].EntryTime = ScanAt(k).entry_i
                      /\ trade_summ[a].ExitTime = k
                      /\ trade_summ[a + 1].EntryTime = k
                      /\ trade_summ[a + 1].Direction = Direction(Position[k])
                /\ \A a \in 1..Len(trade_summ) :
                      ~(trade_summ[a].EntryTime < k /\ k < trade_summ[a].ExitTime)

\* a finished reconstruction holding a trade that ends, and the next trade
\* that starts, on the same flip bar
C10_Witness ==
    /\ pc = "done"
    /\ \E a \in 1..Len(trade_summ) :
          LET k == trade_summ[a].ExitTime IN
          /\ Closed[k] = 1
          /\ Position[k] # 0
          /\ trade_summ[a].EntryTime < k
          /\ a < Len(trade_summ)
          /\ trade_summ[a + 1].EntryTime = k
          /\ trade_summ[a + 1].Direction # trade_summ[a].Direction

MartRunning == engine = "martingale" /\ pc \in {"martingale", "backtest", "done"}

\* C11: under a valid configuration, after every bar of a martingale run
\* current_lot > 0 if and only if side # 0, and entry_price is present if and
\* only if side # 0.
C11_PositionState ==
    (MartRunning /\ ValidConfig(cfg)) =>
        /\ current_lot > 0 <=> side # 0
        /\ entry_price # None <=> side # 0

\* the loop is inside a run that opened, added to, closed and reopened positions
C11_Witness ==
    /\ engine = "martingale"
    /\ pc = "martingale"
    /\ ValidConfig(cfg)
    /\ side # 0
    /\ current_lot > cfg.base_lot
    /\ \E f \in 1..Len(trades) : trades[f].Note[1] = "TP close"

\* iteration i of the martingale loop meets a missing price
MartSkipping ==
    /\ engine = "martingale"
    /\ pc = "martingale"
    /\ i < len(Close)
    /\ ~Processed(Close, i)

SkippedBarNoEffect ==
    [][MartSkipping =>
        /\ UNCHANGED <<side, current_lot, entry_price, trades>>
        /\ UNCHANGED <<Position, PnL, Closed>>
        /\ pc' = "martingale"
        /\ i' = i + 1]_vars

Skipped(k) == k >= 1 /\ ~Processed(Close, k)

\* C12 as stated: a skipped bar changes neither side, lot, entry price nor the
\* ledger, accrues no P&L, does not end the run, and appears in the output
\* with Position = 0, P&L = 0 and Closed = 0.
C12_SkippedBarZeroed ==
    /\ SkippedBarNoEffect
    /\ []((engine = "martingale" /\ EngineReturned) =>
            \A k \in Rows(Close) :
                Skipped(k) => Position[k] = 0 /\ PnL[k] = 0 /\ Closed[k] = 0)

\* C12 amended: ... and appears in the output with Position = 0 and P&L = 0,
\* and with Closed = 0 unless it is the final bar of a run that ends with a
\* position still open, which the session close marks Closed = 1.
C12_SkippedBarZeroedUnlessSessionClose ==
    /\ SkippedBarNoEffect
    /\ []((engine = "martingale" /\ EngineReturned) =>
            \A k \in Rows(Close) :
                Skipped(k) =>
                    /\ Position[k] = 0
                    /\ PnL[k] = 0
                    /\ Closed[k] = IF k = LastRow /\ side # 0 THEN 1 ELSE 0)

\* bar i-1 was skipped while a position was held
C12_Witness ==
    /\ engine = "martingale"
    /\ pc = "martingale"
    /\ i >= 2
    /\ Skipped(i - 1)
    /\ side # 0
    /\ trades # <<>>
    /\ Position[i - 1] = 0
    /\ PnL[i - 1] = 0
    /\ Closed[i - 1] = 0

SessionCloseFills == SelectSeq(trades, LAMBDA f : f.Note = <<"Session close">>)

\* C13: a Session close fill is emitted if and only if the engine still holds
\* a position after the last bar; it is then the last entry of the ledger,
\* carries the final bar's timestamp and resulting position 0, and the final
\* bar's output has Position = 0 and Closed = 1.
C13_SessionClose ==
    /\ (engine = "martingale" /\ pc = "martingale") => SessionCloseFills = <<>>
    /\ (engine = "martingale" /\ EngineReturned) =>
          /\ SessionCloseFills # <<>> <=> side # 0
          /\ side # 0 =>
                /\ Len(SessionCloseFills) = 1
                /\ trades[Len(trades)].Note = <<"Session close">>
                /\ trades[Len(trades)].Datetime = LastRow
                /\ trades[Len(trades)].Position = 0
                /\ trades[Len(trades)].Action = CloseAction(side)
                /\ Position[LastRow] = 0
                /\ Closed[LastRow] = 1

\* a returned run that was force-closed after adding to its position
C13_Witness ==
    /\ engine = "martingale"
    /\ pc = "backtest"
    /\ side # 0
    /\ Len(trades) >= 3
    /\ trades[Len(trades)].Note = <<"Session close">>
    /\ trades[Len(trades) - 1].Datetime = LastRow

ExecReturned == engine = "execute" /\ EngineReturned

Sign(x) == IF x > 0 THEN 1 ELSE IF x < 0 THEN -1 ELSE 0

RECURSIVE HeldSideOn(_)
\* the side execute_signals holds once bar k is over, read from its output:
\* the side of the latest processed bar up to k, flat if there is none
HeldSideOn(k) ==
    IF k < 1 THEN 0
    ELSE IF Processed(Close, k) THEN Sign(Position[k])
    ELSE HeldSideOn(k - 1)

ProcessedRows == {k \in Rows(Close) : k >= 1 /\ Processed(Close, k)}

\* C14: on every processed bar i >= 1 of execute_signals, with flat_on_zero
\* true Position[i] = Signal[i-1] * position_size; with flat_on_zero false
\* Position[i] = Signal[i-1] * position_size when Signal[i-1] # 0 and
\* otherwise the side held on the previous processed bar is kept.
C14_ExecutionLag ==
    ExecReturned =>
        \A k \in ProcessedRows :
            Position[k] = IF cfg.flat_on_zero \/ Signal[k - 1] # 0
                          THEN Signal[k - 1] * cfg.position_size
                          ELSE HeldSideOn(k - 1) * cfg.position_size

\* a run with flat_on_zero false that kept its side through a zero signal
C14_Witness ==
    /\ ExecReturned
    /\ ~cfg.flat_on_zero
    /\ \E k \in ProcessedRows :
          /\ Signal[k - 1] = 0
          /\ Position[k] # 0
          /\ k >= 2
          /\ Position[k - 1] = Position[k]

\* C15 as stated: Closed[i] is set exactly when the side held on bar i differs
\* from the side held on the prior bar, and the final bar has Closed = 1
\* whenever a position is still open after the last bar, so that every opened
\* position is followed by a bar with Closed = 1.
C15_ClosedOnAnyChange ==
    ExecReturned =>
        /\ \A k \in Rows(Close) :
              Closed[k] = 1 <=>
                  \/ k >= 1 /\ HeldSideOn(k) # HeldSideOn(k - 1)
                  \/ k = LastRow /\ HeldSideOn(LastRow) # 0
        /\ \A k \in Rows(Close) :
              Position[k] # 0 => \E j \in Rows(Close) : j >= k /\ Closed[j] = 1

\* C15 amended: Closed[i] is set exactly when a position was held entering
\* bar i and the side held on bar i differs from it, and the final bar has
\* Closed = 1 whenever a position is still open after the last bar, so that
\* every opened position is followed by a bar with Closed = 1.
C15_ClosedOnLeavingPosition ==
    ExecReturned =>
        /\ \A k \in Rows(Close) :
              Closed[k] = 1 <=>
                  \/ /\ k >= 1
                     /\ HeldSideOn(k - 1) # 0
                     /\ HeldSideOn(k) # HeldSideOn(k - 1)
                  \/ k = LastRow /\ HeldSideOn(LastRow) # 0
        /\ \A k \in Rows(Close) :
              Position[k] # 0 => \E j \in Rows(Close) : j >= k /\ Closed[j] = 1

\* a run that opened from flat without a flag and went flat with one
C15_Witness ==
    /\ ExecReturned
    /\ \E k \in ProcessedRows :
          HeldSideOn(k - 1) = 0 /\ Position[k] # 0 /\ Closed[k] = 0
    /\ \E k \in ProcessedRows :
          HeldSideOn(k - 1) # 0 /\ HeldSideOn(k) = 0 /\ Closed[k] = 1

\* C16: on every processed bar i >= 1 of execute_signals, P&L[i] =
\* (close[i] - close[i-1]) * previous_side * position_size, previous_side
\* being the side held entering bar i; the side newly adopted on bar i never
\* contributes, and P&L[i] = 0 when the engine entered bar i flat.
C16_PnLAttribution ==
    ExecReturned =>
        \A k \in ProcessedRows :
            /\ PnL[k] = (Close[k] - Close[k - 1]) * HeldSideOn(k - 1)
                           * cfg.position_size
            /\ HeldSideOn(k - 1) = 0 => PnL[k] = 0

\* a run with a flip bar whose price change went to the side given up, and an
\* opening bar whose price change went to nobody
C16_Witness ==
    /\ ExecReturned
    /\ \E k \in ProcessedRows :
          /\ HeldSideOn(k - 1) # 0
          /\ HeldSideOn(k) = -HeldSideOn(k - 1)
          /\ Close[k] # Close[k - 1]
          /\ PnL[k] # 0
    /\ \E k \in ProcessedRows :
          /\ HeldSideOn(k - 1) = 0
          /\ Position[k] # 0
          /\ Close[k] # Close[k - 1]
          /\ PnL[k] = 0

RECURSIVE LastAvailableClose(_)
\* the latest numeric close up to row k, NaN if there is none
LastAvailableClose(k) ==
    IF k < 0 THEN NaN
    ELSE IF ~isna(Close[k]) THEN Close[k]
    ELSE LastAvailableClose(k - 1)

\* C18: whenever the martingale engine emits a Session close fill, the fill's
\* price is the last available (non-missing) close of the series, including
\* when the final bar's close is missing.
C18_SessionClosePrice ==
    (engine = "martingale" /\ EngineReturned) =>
        \A f \in 1..Len(trades) :
            trades[f].Note = <<"Session close">>
                => /\ ~isna(trades[f].Close)
                   /\ trades[f].Close = LastAvailableClose(LastRow)

\* C19: after the martingale engine has processed a non-final bar i, the
\* output Position[i] equals side * current_lot of the engine state left by
\* bar i, including on bars where an Add fill scaled the lot.
C19_PositionMatchesState ==
    [][(MartProcessing /\ i < LastRow)
          => Position'[i] = side' * current_lot']_vars

\* the lot held on bar i once the open check has run
HeldLot == IF side # 0 THEN current_lot ELSE cfg.base_lot

AddFills == SelectSeq(NewFills, LAMBDA f : f.Note[1] = "Add x")

FlipFills == SelectSeq(NewFills, LAMBDA f : f.Note[1] \in
                 {"Flip close", "Flip close (no DD)", "Flip open"})

\* bar i is processed with a position held and the take-profit not reached
HeldWithoutTakeProfit ==
    /\ MartProcessing
    /\ HeldSide # 0
    /\ (Close[i] - HeldEntry) * HeldSide < cfg.take_profit

RECURSIVE Pow(_, _)
Pow(b, e) == IF e = 0 THEN 1 ELSE b * Pow(b, e - 1)

IsOpening(f) == f.Note[1] \in {"Open", "Flip open"}
IsAdd(f) == f.Note[1] = "Add x"
IsClosing(f) ==
    f.Note[1] \in {"TP close", "Flip close", "Flip close (no DD)", "Session close"}

RECURSIVE AddsSinceOpen(_)
\* the number of Add fills after the most recent opening fill of the ledger
AddsSinceOpen(fs) ==
    IF fs = <<>> THEN 0
    ELSE LET f == fs[Len(fs)]
             front == SubSeq(fs, 1, Len(fs) - 1)
         IN IF IsOpening(f) THEN 0
            ELSE IF IsAdd(f) THEN 1 + AddsSinceOpen(front)
            ELSE AddsSinceOpen(front)

\* C21: wherever a position is held in a martingale run, current_lot =
\* base_lot * multiplier^k, k being the number of Add fills since the most
\* recent opening fill; every Open and Flip open fill carries a resulting
\* position of magnitude exactly base_lot.
C21_GeometricLot ==
    (MartRunning /\ ValidConfig(cfg)) =>
        /\ side # 0 =>
              current_lot = cfg.base_lot * Pow(cfg.multiplier, AddsSinceOpen(trades))
        /\ \A f \in 1..Len(trades) :
              IsOpening(trades[f]) => Abs(trades[f].Position) = cfg.base_lot

\* a position that has been added to twice since it was opened
C21_Witness ==
    /\ engine = "martingale"
    /\ pc = "martingale"
    /\ side # 0
    /\ AddsSinceOpen(trades) = 2
    /\ current_lot = cfg.base_lot * cfg.multiplier * cfg.multiplier

\* bar i is processed with close_on_flip = false, the held position crosses
\* the add threshold short of take-profit, and the lagged signal is opposite
AddUnderOppositeSignal ==
    /\ MartProcessing
    /\ ~cfg.close_on_flip
    /\ side # 0
    /\ dfSignal[i - 1] = -side
    /\ (Close[i] - entry_price) * side < cfg.take_profit
    /\ Abs(Close[i] - entry_price) >= cfg.step

\* C22: with close_on_flip = false, on a processed bar where an Add fires and
\* the lagged signal is opposite to the held side, the flip is not
\* suppressed: the bar appends, in this order, the Add fill, a
\* Flip close (no DD) fill and a Flip open fill, sets Closed[i] = 1 and
\* Position[i] = signal * base_lot, and the new position has lot base_lot and
\* entry_price close[i].
C22_FlipAfterAdd ==
    [][AddUnderOppositeSignal =>
        /\ NewFills =
              <<Fill(i, OpenAction(side), Close[i],
                     current_lot * cfg.multiplier * side,
                     <<"Add x", cfg.multiplier>>),
                Fill(i, CloseAction(side), Close[i], 0, <<"Flip close (no DD)">>),
                Fill(i, OpenAction(-side), Close[i], cfg.base_lot * (-side),
                     <<"Flip open">>)>>
        /\ Closed'[i] = 1
        /\ Position'[i] = dfSignal[i - 1] * cfg.base_lot
        /\ side' = dfSignal[i - 1]
        /\ current_lot' = cfg.base_lot
        /\ entry_price' = Close[i]]_vars

\* a bar that added on an adverse move and flipped at once
C22_Witness ==
    /\ engine = "martingale"
    /\ pc = "martingale"
    /\ ~cfg.close_on_flip
    /\ i >= 2
    /\ Len(trades) >= 4
    /\ LET n == Len(trades) IN
          /\ trades[n].Note = <<"Flip open">>
          /\ trades[n - 1].Note = <<"Flip close (no DD)">>
          /\ trades[n - 2].Note[1] = "Add x"
          /\ trades[n - 2].Datetime = i - 1
          /\ trades[n - 3].Note = <<"Open">>
          /\ (Close[i - 1] - trades[n - 3].Close) * side > 0
    /\ Closed[i - 1] = 1
    /\ Position[i - 1] = side * cfg.base_lot

TimestampOrdered(fs) ==
    \A f \in 1..Len(fs) - 1 : fs[f].Datetime <= fs[f + 1].Datetime

\* C23: the fills returned by martingale_strategy are in non-decreasing
\* timestamp order, Open fills (stamped with the previous bar) and the
\* Session close fill included, and a fill once appended is never modified
\* or removed.
C23_LedgerOrder ==
    /\ [](engine = "martingale" => TimestampOrdered(trades))
    /\ [][engine = "martingale" =>
            /\ Len(trades') >= Len(trades)
            /\ SubSeq(trades', 1, Len(trades)) = trades]_vars

\* a returned ledger in which an Open follows a TP close under the same
\* timestamp and a Session close ends the run
C23_Witness ==
    /\ engine = "martingale"
    /\ pc = "backtest"
    /\ Len(trades) >= 4
    /\ \E f \in 2..Len(trades) :
          /\ trades[f].Note = <<"Open">>
          /\ trades[f - 1].Note[1] = "TP close"
          /\ trades[f].Datetime = trades[f - 1].Datetime
    /\ trades[Len(trades)].Note = <<"Session close">>

ClosingFillsOn(k) ==
    SelectSeq(trades, LAMBDA f : IsClosing(f) /\ f.Datetime = k)

ClosedIffClosingFill ==
    \A k \in Rows(Close) : Closed[k] = 1 <=> ClosingFillsOn(k) # <<>>

\* the final bar flipped and the position it opened was closed by the session
\* close at once
FlipThenSessionClose(k) ==
    /\ k = LastRow
    /\ Len(ClosingFillsOn(k)) = 2
    /\ ClosingFillsOn(k)[1].Note[1] \in {"Flip close", "Flip close (no DD)"}
    /\ ClosingFillsOn(k)[2].Note = <<"Session close">>

\* C24 as stated: bar i has Closed[i] = 1 if and only if the ledger contains
\* a closing fill stamped with bar i, and each such bar has exactly one
\* closing fill.
C24_OneClosingFillPerClosedBar ==
    MartRunning =>
        /\ ClosedIffClosingFill
        /\ \A k \in Rows(Close) : Len(ClosingFillsOn(k)) <= 1

\* C24 amended: bar i has Closed[i] = 1 if and only if the ledger contains a
\* closing fill stamped with bar i, and each such bar has exactly one closing
\* fill, except that the final bar has two when it flips: the flip close and
\* the Session close of the position the flip opened.
C24_ClosingFillsPerClosedBar ==
    MartRunning =>
        /\ ClosedIffClosingFill
        /\ \A k \in Rows(Close) :
              Len(ClosingFillsOn(k)) <= 1 \/ FlipThenSessionClose(k)

\* a returned run whose final bar flipped and was then closed by the session close
C24_Witness ==
    /\ engine = "martingale"
    /\ pc = "backtest"
    /\ FlipThenSessionClose(LastRow)
    /\ Closed[LastRow] = 1
    /\ \E k \in Rows(Close) : k < LastRow /\ Closed[k] = 0

RECURSIVE LedgerSide(_)
\* the side held after the fills of fs, read from the ledger alone
LedgerSide(fs) ==
    IF fs = <<>> THEN 0
    ELSE LET f == fs[Len(fs)] IN
         IF IsOpening(f) THEN Sign(f.Position)
         ELSE IF IsClosing(f) THEN 0
         ELSE LedgerSide(SubSeq(fs, 1, Len(fs) - 1))

BuyIffLong(f, s) ==
    /\ s = 1 => f.Action = "BUY"
    /\ s = -1 => f.Action = "SELL"

SellIffLong(f, s) ==
    /\ s = 1 => f.Action = "SELL"
    /\ s = -1 => f.Action = "BUY"

FillWellFormed(fs, n) ==
    LET f == fs[n]
        before == LedgerSide(SubSeq(fs, 1, n - 1))
    IN /\ IsOpening(f) =>
             /\ before = 0
             /\ Sign(f.Position) # 0
             /\ BuyIffLong(f, Sign(f.Position))
       /\ IsAdd(f) =>
             /\ before # 0
             /\ Sign(f.Position) = before
             /\ BuyIffLong(f, before)
       /\ IsClosing(f) =>
             /\ before # 0
             /\ SellIffLong(f, before)
       /\ f.Note = <<"Flip open">> =>
             /\ n >= 2
             /\ fs[n - 1].Note[1] \in {"Flip close", "Flip close (no DD)"}
             /\ fs[n - 1].Datetime = f.Datetime
       /\ IsOpening(f) \/ IsAdd(f) \/ IsClosing(f)

\* C25: in every martingale run an opening fill (Open or Flip open) occurs
\* only when the ledger is flat at that point, Add and closing fills occur
\* only while a position is open, a Flip open is immediately preceded by a
\* Flip close of the same bar, and opening and Add fills have action BUY
\* exactly when the held side is long while closing fills have the opposite
\* action.
C25_LedgerProtocol ==
    (MartRunning /\ ValidConfig(cfg)) =>
        /\ \A n \in 1..Len(trades) : FillWellFormed(trades, n)
        /\ LedgerSide(trades) = IF pc = "martingale" THEN side ELSE 0

\* a returned ledger with an open, an add, a flip and a session close
C25_Witness ==
    /\ engine = "martingale"
    /\ pc = "backtest"
    /\ Len(trades) >= 5
    /\ trades[1].Note = <<"Open">>
    /\ \E n \in 1..Len(trades) : IsAdd(trades[n])
    /\ \E n \in 1..Len(trades) : trades[n].Note = <<"Flip open">>
    /\ trades[Len(trades)].Note = <<"Session close">>

OpeningFills == SelectSeq(trades, IsOpening)
ClosingFills == SelectSeq(trades, IsClosing)

\* C26: for every martingale run, the number of trades returned by the
\* reconstruction equals the number of opening fills (Open plus Flip open),
\* which equals the number of closing fills; no position opened by the
\* engine is missing from the trade table.
C26_OneTradePerPosition ==
    (engine = "martingale" /\ pc = "done") =>
        /\ Len(trade_summ) = Len(OpeningFills)
        /\ Len(OpeningFills) = Len(ClosingFills)

\* C27: for every output of execute_signals, the reconstruction of report.py
\* and the reconstruction of backtest.py return the same trade table.
C27_ReconstructorsAgree ==
    (engine = "execute" /\ pc = "reported") => report_summ = trade_summ

RequestsCovering(d) ==
    {r \in 1..Len(all_data) : all_data[r][1] <= d /\ d < all_data[r][2]}

\* C28: for every start_date < end_date, the half-open day intervals
\* [start, chunk_end) requested by fetch_data are pairwise disjoint and
\* together cover every day of [start_date, end_date) exactly once, with no
\* day skipped between consecutive chunks.
C28_FetchCoversRange ==
    (pc = "fetched" /\ start_date < end_date) =>
        \A d \in start_date..(end_date - 1) : Cardinality(RequestsCovering(d)) = 1

====
